---- MODULE Spec2Model ----
(***************************************************************************)
(* Model of iheap.h, a single-header library of indexed binary heaps.      *)
(*                                                                         *)
(* The library owns no storage.  The caller owns a random-access sequence  *)
(* of (priority, key) pairs and an index map from key to slot, reached     *)
(* through the indexer.  Slots are numbered from 0 as in the source, so    *)
(* the sequence is a function on 0 .. n-1 and the parent of slot i is      *)
(* (i - 1) \div 2.                                                         *)
(***************************************************************************)
EXTENDS Integers, Sequences, FiniteSets

VARIABLES heap,   \* the caller's sequence: [0 .. n-1 -> Entry]
          idx,    \* the caller's index map: [Keys -> -1 .. n-1], -1 = absent
          cmp,    \* the Compare argument in use
          last,   \* what the last call was and what it returned
          pc,     \* position of the driver
          pre,    \* single-call driver: sequence and index map before the call
          arg,    \* single-call driver: the key, value and range of the call
          raw,    \* the sequence as the last call left it, tail not yet dropped
          input,  \* batch driver: the sequence it started from
          start,  \* batch driver: the sequence handed to sort, or first popped
          out     \* batch driver: the roots read, in extraction order

vars == <<heap, idx, cmp, last, pc, pre, arg, raw, input, start, out>>

\* ------------------------------------------------------------------ bounds
MaxN   == 6    \* capacity of the caller's sequence; the keys are 1 .. MaxN
MaxPri == 1    \* priorities are 0 .. MaxPri
MaxLen == 4    \* longest sequence handed to the batch driver

Keys == 1 .. MaxN
Pri  == 0 .. MaxPri
Absent == -1

\* ------------------------------------------------------------------ data
Entry(p, k) == [first |-> p, second |-> k]

Size(a) == Cardinality(DOMAIN a)

Empty == [i \in {} |-> Entry(0, 1)]

AllAbsent == [k \in Keys |-> Absent]

\* std::less on std::pair: lexicographic on (first, second).
less(a, b) == \/ a.first < b.first
              \/ (a.first = b.first /\ a.second < b.second)

\* A caller-supplied comparator that looks at the priority alone.
first_less(a, b) == a.first < b.first

Comp(c, a, b) == IF c = "less" THEN less(a, b) ELSE first_less(a, b)

\* ------------------------------------------------------ rebalance primitives
\* mutant: the entries are exchanged and the index map is left alone
SwapEntries_EntriesOnly(s, i, j) ==
    [a |-> [s.a EXCEPT ![i] = s.a[j], ![j] = s.a[i]], ix |-> s.ix]

\* mutant: each key is given the slot its entry has moved to
SwapEntries_AssignsSlots(s, i, j) ==
    LET a2 == [s.a EXCEPT ![i] = s.a[j], ![j] = s.a[i]]
    IN  [a  |-> a2,
         ix |-> [k \in DOMAIN s.ix |->
                    IF k = a2[j].second THEN j
                    ELSE IF k = a2[i].second THEN i
                    ELSE s.ix[k]]]

\* swap(begin[i], begin[j]); swap(indexer(begin[i].second), indexer(begin[j].second));
\* the keys are read after the entries have been exchanged.
SwapEntries(s, i, j) ==
    LET a2 == [s.a EXCEPT ![i] = s.a[j], ![j] = s.a[i]]
        ki == a2[i].second
        kj == a2[j].second
    IN  [a  |-> a2,
         ix |-> [s.ix EXCEPT ![ki] = s.ix[kj], ![kj] = s.ix[ki]]]

RECURSIVE bubble_up_loop(_, _, _)
bubble_up_loop(s, i, c) ==
    IF (i > 0) /\ Comp(c, s.a[(i - 1) \div 2], s.a[i])
    THEN bubble_up_loop(SwapEntries(s, (i - 1) \div 2, i), (i - 1) \div 2, c)
    ELSE s

\* n = end - begin, i = it - begin
bubble_up(s, n, i, c) ==
    IF (i < 0) \/ (i >= n) THEN s ELSE bubble_up_loop(s, i, c)

\* mutant: the loop over the children stops after the left one
MostDominant_LeftOnly(s, n, i, c) ==
    LET l == 2 * i + 1
    IN  IF (l < n) /\ Comp(c, s.a[i], s.a[l]) THEN l ELSE i

\* mutant: the right child is examined before the left one
MostDominant_RightFirst(s, n, i, c) ==
    LET l  == 2 * i + 1
        r  == 2 * i + 2
        m1 == IF (r < n) /\ Comp(c, s.a[i], s.a[r]) THEN r ELSE i
    IN  IF (l < n) /\ Comp(c, s.a[m1], s.a[l]) THEN l ELSE m1

\* the inner for loop of bubble_down: the left child, then the right one
MostDominant(s, n, i, c) ==
    LET l  == 2 * i + 1
        r  == 2 * i + 2
        m1 == IF (l < n) /\ Comp(c, s.a[i], s.a[l]) THEN l ELSE i
    IN  IF (r < n) /\ Comp(c, s.a[m1], s.a[r]) THEN r ELSE m1

RECURSIVE bubble_down_loop(_, _, _, _)
bubble_down_loop(s, n, i, c) ==
    IF i < n
    THEN LET m == MostDominant(s, n, i, c)
         IN  IF m = i THEN s
             ELSE bubble_down_loop(SwapEntries(s, i, m), n, m, c)
    ELSE s

bubble_down(s, n, i, c) ==
    IF (i < 0) \/ (i >= n) THEN s ELSE bubble_down_loop(s, n, i, c)

\* ------------------------------------------------------- public operations
\* mutant: the new entry's slot is not written to the index map
push_NoIndex(s, n, c) ==
    IF n <= 0 THEN s ELSE bubble_up(s, n, n - 1, c)

push(s, n, c) ==
    IF n <= 0 THEN s
    ELSE bubble_up([s EXCEPT !.ix[s.a[n - 1].second] = n - 1], n, n - 1, c)

\* mutant: the sift toward the leaves is missing
pop_NoSift(s, n, c) ==
    IF n <= 0 THEN s
    ELSE LET t == SwapEntries(s, 0, n - 1)
         IN  [t EXCEPT !.ix[t.a[n - 1].second] = Absent]

\* mutant: the key leaving the range keeps its slot in the index map
pop_NoSentinel(s, n, c) ==
    IF n <= 0 THEN s
    ELSE bubble_down(SwapEntries(s, 0, n - 1), n - 1, 0, c)

\* mutant: the sift runs over [begin, end) instead of [begin, back)
pop_WholeRange(s, n, c) ==
    IF n <= 0 THEN s
    ELSE LET back == n - 1
             t    == SwapEntries(s, 0, back)
             u    == [t EXCEPT !.ix[t.a[back].second] = Absent]
         IN  bubble_down(u, n, 0, c)

pop(s, n, c) ==
    IF n <= 0 THEN s
    ELSE LET back == n - 1
             t    == SwapEntries(s, 0, back)
             u    == [t EXCEPT !.ix[t.a[back].second] = Absent]
         IN  bubble_down(u, back, 0, c)

\* mutant: the loop stops before the root (it > begin)
RECURSIVE make_loop_SkipsRoot(_, _, _, _)
make_loop_SkipsRoot(s, n, i, c) ==
    IF i > 0 THEN make_loop_SkipsRoot(bubble_down(s, n, i, c), n, i - 1, c) ELSE s

\* for (it = end - 1; it >= begin; --it): every slot down to the root is
\* sifted; the last --it steps below begin, see MakeTraps
RECURSIVE make_loop(_, _, _, _)
make_loop(s, n, i, c) ==
    IF i >= 0 THEN make_loop(bubble_down(s, n, i, c), n, i - 1, c) ELSE s

\* mutant: make writes every key's slot to the index map before it sifts
make_BuildsIndex(s, n, c) ==
    IF n <= 0 THEN s
    ELSE LET ix0 == [k \in DOMAIN s.ix |->
                        IF \E i \in 0 .. n - 1 : s.a[i].second = k
                        THEN CHOOSE i \in 0 .. n - 1 : s.a[i].second = k
                        ELSE s.ix[k]]
         IN  make_loop([s EXCEPT !.ix = ix0], n, n - 1, c)

make(s, n, c) == IF n <= 0 THEN s ELSE make_loop(s, n, n - 1, c)

\* mutant: pop(begin, --end, ...) in place of pop(begin, end--, ...)
RECURSIVE sort_PreDecrement(_, _, _)
sort_PreDecrement(s, n, c) ==
    IF 0 < n THEN sort_PreDecrement(pop(s, n - 1, c), n - 1, c) ELSE s

RECURSIVE sort(_, _, _)
sort(s, n, c) == IF 0 < n THEN sort(pop(s, n, c), n - 1, c) ELSE s

\* mutant: the branch that sifts toward the root is missing
update_NoUp(s, n, key, value, c) ==
    IF n <= 0 THEN [s |-> s, ret |-> FALSE, sift |-> "none"]
    ELSE LET index == s.ix[key] IN
         IF index = Absent THEN [s |-> s, ret |-> FALSE, sift |-> "none"]
         ELSE LET old == s.a[index]
                  t   == [s EXCEPT !.a[index].first = value]
              IN  IF Comp(c, t.a[index], old)
                  THEN [s |-> bubble_down(t, n, index, c), ret |-> TRUE, sift |-> "down"]
                  ELSE [s |-> t, ret |-> TRUE, sift |-> "none"]

\* mutant: the test for an empty range is missing
update_NoEmptyCheck(s, n, key, value, c) ==
    LET index == s.ix[key] IN
    IF index = Absent THEN [s |-> s, ret |-> FALSE, sift |-> "none"]
    ELSE LET old == s.a[index]
             t   == [s EXCEPT !.a[index].first = value]
         IN  IF Comp(c, t.a[index], old)
             THEN [s |-> bubble_down(t, n, index, c), ret |-> TRUE, sift |-> "down"]
             ELSE IF Comp(c, old, t.a[index])
             THEN [s |-> bubble_up(t, n, index, c), ret |-> TRUE, sift |-> "up"]
             ELSE [s |-> t, ret |-> TRUE, sift |-> "none"]

\* mutant: one test decides between the two sifts
update_DownOnEqual(s, n, key, value, c) ==
    IF n <= 0 THEN [s |-> s, ret |-> FALSE, sift |-> "none"]
    ELSE LET index == s.ix[key] IN
         IF index = Absent THEN [s |-> s, ret |-> FALSE, sift |-> "none"]
         ELSE LET old == s.a[index]
                  t   == [s EXCEPT !.a[index].first = value]
              IN  IF ~Comp(c, old, t.a[index])
                  THEN [s |-> bubble_down(t, n, index, c), ret |-> TRUE, sift |-> "down"]
                  ELSE [s |-> bubble_up(t, n, index, c), ret |-> TRUE, sift |-> "up"]

\* mutant: true is returned only from the two branches that sift
update_FalseWhenSame(s, n, key, value, c) ==
    IF n <= 0 THEN [s |-> s, ret |-> FALSE, sift |-> "none"]
    ELSE LET index == s.ix[key] IN
         IF index = Absent THEN [s |-> s, ret |-> FALSE, sift |-> "none"]
         ELSE LET old == s.a[index]
                  t   == [s EXCEPT !.a[index].first = value]
              IN  IF Comp(c, t.a[index], old)
                  THEN [s |-> bubble_down(t, n, index, c), ret |-> TRUE, sift |-> "down"]
                  ELSE IF Comp(c, old, t.a[index])
                  THEN [s |-> bubble_up(t, n, index, c), ret |-> TRUE, sift |-> "up"]
                  ELSE [s |-> t, ret |-> FALSE, sift |-> "none"]

update(s, n, key, value, c) ==
    IF n <= 0 THEN [s |-> s, ret |-> FALSE, sift |-> "none"]
    ELSE LET index == s.ix[key] IN
         IF index = Absent THEN [s |-> s, ret |-> FALSE, sift |-> "none"]
         ELSE LET old == s.a[index]
                  t   == [s EXCEPT !.a[index].first = value]
              IN  IF Comp(c, t.a[index], old)
                  THEN [s |-> bubble_down(t, n, index, c), ret |-> TRUE, sift |-> "down"]
                  ELSE IF Comp(c, old, t.a[index])
                  THEN [s |-> bubble_up(t, n, index, c), ret |-> TRUE, sift |-> "up"]
                  ELSE [s |-> t, ret |-> TRUE, sift |-> "none"]

\* mutant: the last entry is copied over the removed one, not exchanged
pop_key_Overwrite(s, n, key, c) ==
    IF n <= 0 THEN [s |-> s, ret |-> FALSE, sift |-> "none"]
    ELSE LET index == s.ix[key] IN
         IF index = Absent THEN [s |-> s, ret |-> FALSE, sift |-> "none"]
         ELSE LET back == n - 1
                  old  == s.a[index]
                  t    == [s EXCEPT !.a[index] = s.a[back]]
                  u    == [t EXCEPT !.ix[key] = Absent,
                                    !.ix[t.a[back].second] = index]
              IN  IF Comp(c, u.a[index], old)
                  THEN [s |-> bubble_down(u, back, index, c), ret |-> TRUE, sift |-> "down"]
                  ELSE IF Comp(c, old, u.a[index])
                  THEN [s |-> bubble_up(u, back, index, c), ret |-> TRUE, sift |-> "up"]
                  ELSE [s |-> u, ret |-> TRUE, sift |-> "none"]

\* mutant: one test decides between the two sifts
pop_key_DownOnEqual(s, n, key, c) ==
    IF n <= 0 THEN [s |-> s, ret |-> FALSE, sift |-> "none"]
    ELSE LET index == s.ix[key] IN
         IF index = Absent THEN [s |-> s, ret |-> FALSE, sift |-> "none"]
         ELSE LET back == n - 1
                  old  == s.a[index]
                  t    == SwapEntries(s, index, back)
                  u    == [t EXCEPT !.ix[t.a[back].second] = Absent]
              IN  IF ~Comp(c, old, u.a[index])
                  THEN [s |-> bubble_down(u, back, index, c), ret |-> TRUE, sift |-> "down"]
                  ELSE [s |-> bubble_up(u, back, index, c), ret |-> TRUE, sift |-> "up"]

\* mutant: the key leaving the range keeps its slot in the index map
pop_key_NoSentinel(s, n, key, c) ==
    IF n <= 0 THEN [s |-> s, ret |-> FALSE, sift |-> "none"]
    ELSE LET index == s.ix[key] IN
         IF index = Absent THEN [s |-> s, ret |-> FALSE, sift |-> "none"]
         ELSE LET back == n - 1
                  old  == s.a[index]
                  u    == SwapEntries(s, index, back)
              IN  IF Comp(c, u.a[index], old)
                  THEN [s |-> bubble_down(u, back, index, c), ret |-> TRUE, sift |-> "down"]
                  ELSE IF Comp(c, old, u.a[index])
                  THEN [s |-> bubble_up(u, back, index, c), ret |-> TRUE, sift |-> "up"]
                  ELSE [s |-> u, ret |-> TRUE, sift |-> "none"]

\* mutant: the branch that sifts toward the root is missing
pop_key_NoUp(s, n, key, c) ==
    IF n <= 0 THEN [s |-> s, ret |-> FALSE, sift |-> "none"]
    ELSE LET index == s.ix[key] IN
         IF index = Absent THEN [s |-> s, ret |-> FALSE, sift |-> "none"]
         ELSE LET back == n - 1
                  old  == s.a[index]
                  t    == SwapEntries(s, index, back)
                  u    == [t EXCEPT !.ix[t.a[back].second] = Absent]
              IN  IF Comp(c, u.a[index], old)
                  THEN [s |-> bubble_down(u, back, index, c), ret |-> TRUE, sift |-> "down"]
                  ELSE [s |-> u, ret |-> TRUE, sift |-> "none"]

pop_key(s, n, key, c) ==
    IF n <= 0 THEN [s |-> s, ret |-> FALSE, sift |-> "none"]
    ELSE LET index == s.ix[key] IN
         IF index = Absent THEN [s |-> s, ret |-> FALSE, sift |-> "none"]
         ELSE LET back == n - 1
                  old  == s.a[index]
                  t    == SwapEntries(s, index, back)
                  u    == [t EXCEPT !.ix[t.a[back].second] = Absent]
              IN  IF Comp(c, u.a[index], old)
                  THEN [s |-> bubble_down(u, back, index, c), ret |-> TRUE, sift |-> "down"]
                  ELSE IF Comp(c, old, u.a[index])
                  THEN [s |-> bubble_up(u, back, index, c), ret |-> TRUE, sift |-> "up"]
                  ELSE [s |-> u, ret |-> TRUE, sift |-> "none"]

\* ------------------------------------------------------------ the caller
Cur == [a |-> heap, ix |-> idx]

\* vector::push_back
PushBack(a, e) == [i \in 0 .. Size(a) |-> IF i < Size(a) THEN a[i] ELSE e]

\* vector::pop_back
PopBack(a) == [i \in 0 .. Size(a) - 2 |-> a[i]]

\* the slot holding key k, or Absent
SlotOf(a, k) ==
    IF \E i \in DOMAIN a : a[i].second = k
    THEN CHOOSE i \in DOMAIN a : a[i].second = k
    ELSE Absent

IndexOf(a) == [k \in Keys |-> SlotOf(a, k)]

\* op: the call; ret: its result (TRUE for a void call that acted); sift: the
\* rebalance primitive it called; moved: whether the sift reordered the sequence
Call(op, ret, sift, moved) == [op |-> op, ret |-> ret, sift |-> sift, moved |-> moved]

NoCall == Call("none", FALSE, "none", FALSE)

NoArg == [key |-> 0, value |-> 0, n |-> 0]

NoPre == [a |-> Empty, ix |-> AllAbsent]

\* the caller appends (v, k) and calls push on the grown range
DoPush(k, v) ==
    LET r == push([a |-> PushBack(heap, Entry(v, k)), ix |-> idx], Size(heap) + 1, cmp)
    IN  /\ heap' = r.a
        /\ idx' = r.ix
        /\ last' = Call("push", TRUE, "up", r.a # PushBack(heap, Entry(v, k)))

\* the caller calls pop and, when there was something to pop, drops the tail
AfterPop == pop(Cur, Size(heap), cmp)

DoPop ==
    LET r == AfterPop
    IN  /\ heap' = IF Size(heap) > 0 THEN PopBack(r.a) ELSE r.a
        /\ idx' = r.ix
        /\ last' = Call("pop", Size(heap) > 0,
                        IF Size(heap) > 0 THEN "down" ELSE "none",
                        Size(heap) > 0 /\ r.a # SwapEntries(Cur, 0, Size(heap) - 1).a)

\* update(begin, begin + n, indexer, k, v)
DoUpdate(k, v, n) ==
    LET r == update(Cur, n, k, v, cmp)
    IN  /\ heap' = r.s.a
        /\ idx' = r.s.ix
        /\ last' = Call("update", r.ret, r.sift, r.ret /\ r.s.ix[k] # idx[k])

\* pop_key(begin, begin + n, indexer, k); the caller drops the tail on success
AfterPopKey(k, n) == pop_key(Cur, n, k, cmp)

DoPopKey(k, n) ==
    LET r == AfterPopKey(k, n)
    IN  /\ heap' = IF r.ret THEN PopBack(r.s.a) ELSE r.s.a
        /\ idx' = r.s.ix
        /\ last' = Call("pop_key", r.ret, r.sift,
                        r.ret /\ r.s.a # SwapEntries(Cur, idx[k], n - 1).a)

\* --------------------------------------------------- interactive driver
\* From the empty heap, any sequence of push (of a key that is not live),
\* pop, update and pop_key on the whole sequence.
Init ==
    /\ heap = Empty
    /\ idx = AllAbsent
    /\ cmp = "less"
    /\ last = NoCall
    /\ pc = "ops"
    /\ pre = NoPre
    /\ arg = NoArg
    /\ raw = Empty
    /\ input = Empty
    /\ start = Empty
    /\ out = <<>>

Frame == UNCHANGED <<cmp, pc, pre, arg, raw, input, start, out>>

Push(k, v) ==
    /\ pc = "ops"
    /\ Size(heap) < MaxN
    /\ idx[k] = Absent
    /\ DoPush(k, v)
    /\ Frame

Pop == pc = "ops" /\ DoPop /\ Frame

Update(k, v) == pc = "ops" /\ DoUpdate(k, v, Size(heap)) /\ Frame

PopKey(k) == pc = "ops" /\ DoPopKey(k, Size(heap)) /\ Frame

Next ==
    \/ \E k \in Keys, v \in Pri : Push(k, v)
    \/ Pop
    \/ \E k \in Keys, v \in Pri : Update(k, v)
    \/ \E k \in Keys : PopKey(k)

Spec == Init /\ [][Next]_vars

\* ------------------------------------------------------------ predicates
IsHeap(a, n, c) ==
    \A i \in 1 .. n - 1 : ~Comp(c, a[(i - 1) \div 2], a[i])

IndexConsistent(a, ix, n) ==
    \A i \in 0 .. n - 1 : ix[a[i].second] = i

Range(a) == {a[i] : i \in DOMAIN a}

LiveKeys(a) == {a[i].second : i \in DOMAIN a}

Count(a, e) == Cardinality({i \in DOMAIN a : a[i] = e})

\* b holds the entries of a, each as often as a does
PermOf(a, b) ==
    /\ DOMAIN a = DOMAIN b
    /\ \A e \in Range(a) \cup Range(b) : Count(a, e) = Count(b, e)

\* no slot's entry is dominated by the entry of the slot before it
Ascending(a, n, c) ==
    \A i \in 1 .. n - 1 : ~Comp(c, a[i], a[i - 1])

\* --------------------------------------------------- single-call driver
\* One call on a heap built by pushes, the state before the call kept in pre
\* and the sequence as the call left it in raw.  Every
\* valid heap is built by pushing its entries in slot order.
RECURSIVE Pushed(_, _)
Pushed(n, c) ==
    IF n = 0 THEN {NoPre}
    ELSE UNION {{push([a |-> PushBack(s.a, Entry(v, k)), ix |-> s.ix], n, c) :
                    k \in {x \in Keys : s.ix[x] = Absent}, v \in Pri}
                : s \in Pushed(n - 1, c)}

InitOp ==
    /\ cmp = "less"
    /\ \E n \in 0 .. MaxN : \E s \in Pushed(n, cmp) :
          /\ heap = s.a
          /\ idx = s.ix
          /\ pre = s
    /\ last = NoCall
    /\ pc = "valid"
    /\ arg = NoArg
    /\ raw = Empty
    /\ input = Empty
    /\ start = Empty
    /\ out = <<>>

FrameOp == pc' = "called" /\ UNCHANGED <<cmp, pre, input, start, out>>

OpPush(k, v) ==
    /\ pc = "valid"
    /\ Size(heap) < MaxN
    /\ idx[k] = Absent
    /\ DoPush(k, v)
    /\ arg' = [key |-> k, value |-> v, n |-> Size(heap) + 1]
    /\ raw' = heap'
    /\ FrameOp

OpPop ==
    /\ pc = "valid"
    /\ DoPop
    /\ arg' = [key |-> 0, value |-> 0, n |-> Size(heap)]
    /\ raw' = AfterPop.a
    /\ FrameOp

OpUpdate(k, v, n) ==
    /\ pc = "valid"
    /\ DoUpdate(k, v, n)
    /\ arg' = [key |-> k, value |-> v, n |-> n]
    /\ raw' = heap'
    /\ FrameOp

OpPopKey(k, n) ==
    /\ pc = "valid"
    /\ DoPopKey(k, n)
    /\ arg' = [key |-> k, value |-> 0, n |-> n]
    /\ raw' = AfterPopKey(k, n).s.a
    /\ FrameOp

\* the ranges handed to update and pop_key: the whole sequence, or an empty one
Ranges == {0, Size(heap)}

NextOp ==
    \/ \E k \in Keys, v \in Pri : OpPush(k, v)
    \/ OpPop
    \/ \E k \in Keys, v \in Pri, n \in Ranges : OpUpdate(k, v, n)
    \/ \E k \in Keys, n \in Ranges : OpPopKey(k, n)

SpecOp == InitOp /\ [][NextOp]_vars

\* --------------------------------------------------- duplicate-key driver
\* One push, on a heap built by pushes, of a key that is already live: the
\* caller appends the entry and calls push, which does not look the key up.
OpPushDup(k, v) ==
    /\ pc = "valid"
    /\ Size(heap) < MaxN
    /\ idx[k] # Absent
    /\ DoPush(k, v)
    /\ arg' = [key |-> k, value |-> v, n |-> Size(heap) + 1]
    /\ raw' = heap'
    /\ FrameOp

NextDup == \E k \in Keys, v \in Pri : OpPushDup(k, v)

SpecDup == InitOp /\ [][NextDup]_vars

\* ------------------------------------------------------------ batch driver
\* The caller hands a whole sequence, in any order and with the index map
\* matching the positions, to make and sort, or drains a made heap by
\* reading the root and popping until nothing is left.  pre keeps the
\* sequence and the index map it started from.
BatchKeys == 1 .. MaxLen

Inputs ==
    UNION {{a \in [0 .. n - 1 -> [first : Pri, second : BatchKeys]] :
               \A i, j \in 0 .. n - 1 : i # j => a[i].second # a[j].second}
           : n \in 0 .. MaxLen}

InitBatch ==
    /\ heap \in Inputs
    /\ idx = IndexOf(heap)
    /\ cmp \in {"less", "first_less"}
    /\ last = NoCall
    /\ pc = "input"
    /\ pre = Cur
    /\ arg = NoArg
    /\ raw = Empty
    /\ input = heap
    /\ start = Empty
    /\ out = <<>>

Make ==
    /\ pc = "input"
    /\ LET r == make(Cur, Size(heap), cmp)
       IN  /\ heap' = r.a
           /\ idx' = r.ix
           /\ last' = Call("make", Size(heap) > 0,
                           IF Size(heap) > 0 THEN "down" ELSE "none", r.a # heap)
    /\ pc' = "made"
    /\ raw' = heap'
    /\ UNCHANGED <<cmp, pre, arg, input, start, out>>

\* make's loop ends by decrementing it below begin, which is undefined: with
\* pointers the comparison that follows fails and make returns (Make); a
\* build with checked iterators stops in the decrement, all sifts done and
\* nothing returned to the caller
MakeTraps ==
    /\ pc = "input"
    /\ Size(heap) > 0
    /\ LET r == make(Cur, Size(heap), cmp)
       IN  /\ heap' = r.a
           /\ idx' = r.ix
           /\ last' = Call("make", FALSE, "down", r.a # heap)
    /\ pc' = "trapped"
    /\ raw' = heap'
    /\ UNCHANGED <<cmp, pre, arg, input, start, out>>

\* sort on the whole sequence; the sequence keeps its length
Sort ==
    /\ pc \in {"input", "made"}
    /\ LET r == sort(Cur, Size(heap), cmp)
       IN  /\ heap' = r.a
           /\ idx' = r.ix
           /\ last' = Call("sort", Size(heap) > 0,
                           IF Size(heap) > 0 THEN "down" ELSE "none", r.a # heap)
    /\ pc' = IF pc = "made" THEN "made_sorted" ELSE "sorted"
    /\ start' = heap
    /\ raw' = heap'
    /\ UNCHANGED <<cmp, pre, arg, input, out>>

\* read the root, call pop, drop the tail
Drain ==
    /\ pc \in {"made", "draining"}
    /\ Size(heap) > 0
    /\ DoPop
    /\ out' = Append(out, heap[0])
    /\ start' = IF pc = "made" THEN heap ELSE start
    /\ pc' = "draining"
    /\ raw' = AfterPop.a
    /\ UNCHANGED <<cmp, pre, arg, input>>

NextBatch == Make \/ MakeTraps \/ Sort \/ Drain

SpecBatch == InitBatch /\ [][NextBatch]_vars

\* -------------------------------------------------------------- make driver
\* make on a whole sequence whose index map the caller has filled in, left
\* at -1 everywhere, or filled in with every slot number off by d.
IndexMaps(a) ==
    {IndexOf(a), AllAbsent} \cup
    {[k \in Keys |-> IF SlotOf(a, k) = Absent THEN Absent
                     ELSE (SlotOf(a, k) + d) % Size(a)] : d \in 1 .. Size(a) - 1}

InitMake ==
    /\ heap \in Inputs
    /\ idx \in IndexMaps(heap)
    /\ cmp \in {"less", "first_less"}
    /\ last = NoCall
    /\ pc = "input"
    /\ pre = Cur
    /\ arg = NoArg
    /\ raw = Empty
    /\ input = heap
    /\ start = Empty
    /\ out = <<>>

NextMake == Make \/ MakeTraps

SpecMake == InitMake /\ [][NextMake]_vars

\* -------------------------------------------------------------- sift driver
\* One call of detail::bubble_down on a whole sequence in any order, at any
\* slot of it or at its end; arg keeps the slot.
Sift(i) ==
    /\ pc = "input"
    /\ LET r == bubble_down(Cur, Size(heap), i, cmp)
       IN  /\ heap' = r.a
           /\ idx' = r.ix
           /\ last' = Call("bubble_down", i < Size(heap), "down", r.a # heap)
    /\ arg' = [key |-> 0, value |-> 0, n |-> Size(heap), slot |-> i]
    /\ pc' = "sifted"
    /\ raw' = heap'
    /\ UNCHANGED <<cmp, pre, input, start, out>>

NextSift == \E i \in 0 .. MaxLen : Sift(i)

SpecSift == InitBatch /\ [][NextSift]_vars

\* ----------------------------------------------------------- both drivers
\* One call on a valid heap, or the batch calls on a whole sequence.
InitAll == InitOp \/ InitBatch

NextAll == NextOp \/ NextBatch

SpecAll == InitAll /\ [][NextAll]_vars

\* ------------------------------------------------------------------ claims
\* C1: between operations no child dominates its parent:
\* comp(entry[(i-1)/2], entry[i]) is false for every non-root active slot i.
HeapProperty == IsHeap(heap, Size(heap), cmp)

\* a pop_key on a full sequence whose moved-in entry had to climb
C1_Witness ==
    /\ last.op = "pop_key" /\ last.sift = "up" /\ last.moved
    /\ Size(heap) = MaxN - 1
    /\ HeapProperty

\* C2: between operations every active slot i holding key k has indexer(k) = i.
IndexConsistency == IndexConsistent(heap, idx, Size(heap))

\* an update that moved an entry down through a full sequence
C2_Witness ==
    /\ last.op = "update" /\ last.sift = "down" /\ last.moved
    /\ Size(heap) = MaxN
    /\ IndexConsistency

\* C3: every key with no live entry (never pushed, or removed by pop or pop_key
\* and not pushed again) resolves to the sentinel -1, whatever was called since.
RemovedKeysAbsent ==
    \A k \in Keys \ LiveKeys(heap) : idx[k] = Absent

\* a removal that reordered the survivors has just emptied a key's entry
C3_Witness ==
    /\ last.op \in {"pop", "pop_key"} /\ last.ret /\ last.moved
    /\ Size(heap) >= 2
    /\ \E k \in Keys \ LiveKeys(heap) : idx[k] = Absent

\* C4: pop on a non-empty valid heap removes the entry of slot 0, which no
\* active entry dominates, and leaves the other n-1 entries, unchanged, as a
\* valid heap over [0, n-1).
PopExtractsRoot ==
    (pc = "called" /\ last.op = "pop" /\ Size(pre.a) > 0) =>
        /\ \A i \in DOMAIN pre.a : ~Comp(cmp, pre.a[0], pre.a[i])
        /\ Size(heap) = Size(pre.a) - 1
        /\ Range(heap) = Range(pre.a) \ {pre.a[0]}
        /\ IsHeap(heap, Size(heap), cmp)
        /\ IndexConsistent(heap, idx, Size(heap))

\* a pop of a full heap whose sift reordered the survivors
C4_Witness ==
    /\ pc = "called" /\ last.op = "pop" /\ last.moved
    /\ Size(pre.a) = MaxN

\* C5 as stated: sort leaves any sequence, in any initial order, ascending by
\* dominance and a permutation of what it was handed.
SortSortsAnyInput ==
    pc = "sorted" =>
        /\ Ascending(heap, Size(heap), cmp)
        /\ PermOf(heap, start)

\* C5 amended: sort leaves any sequence a permutation of what it was handed,
\* and ascending by dominance when what it was handed satisfied the heap
\* property.
SortSortsHeap ==
    pc = "sorted" =>
        /\ PermOf(heap, start)
        /\ IsHeap(start, Size(start), cmp) => Ascending(heap, Size(heap), cmp)

\* sort was handed a heap of full length and reordered it
C5_Witness ==
    /\ pc = "sorted"
    /\ Size(start) = MaxLen
    /\ IsHeap(start, Size(start), cmp)
    /\ heap # start
    /\ Ascending(heap, Size(heap), cmp)

\* C6: make and then sort on the full range leave a permutation of the input
\* in which no slot's entry is dominated by the entry of the slot before it.
MakeThenSort ==
    pc = "made_sorted" =>
        /\ PermOf(heap, input)
        /\ Ascending(heap, Size(heap), cmp)

\* the input was no heap, and was not in order either
C6_Witness ==
    /\ pc = "made_sorted"
    /\ Size(input) = MaxLen
    /\ ~IsHeap(input, Size(input), cmp)
    /\ ~Ascending(input, Size(input), cmp)
    /\ Ascending(heap, Size(heap), cmp)

\* what sort leaves of the heap the draining began with
SortedStart == sort([a |-> start, ix |-> IndexOf(start)], Size(start), cmp).a

\* C7: the roots read while popping a valid heap empty are its entries, each
\* once, none dominating an earlier one, and their priorities are those of the
\* sorted sequence read from its last slot to its first.
ExtractionOrder ==
    pc = "draining" =>
        /\ \A i \in 1 .. Len(out) : \A j \in i + 1 .. Len(out) :
               ~Comp(cmp, out[i], out[j])
        /\ \A i \in 1 .. Len(out) :
               out[i].first = SortedStart[Size(start) - i].first
        /\ Len(out) + Size(heap) = Size(start)
        /\ \A e \in Range(start) :
               Cardinality({i \in 1 .. Len(out) : out[i] = e}) + Count(heap, e) = 1

\* a heap of full length has been popped empty
C7_Witness ==
    /\ pc = "draining"
    /\ Size(heap) = 0
    /\ Len(out) = MaxLen
    /\ \E i \in 1 .. Len(out) - 1 : out[i].first # out[i + 1].first

\* the call was handed the whole sequence and a key that was live
OnLiveKey(op) ==
    /\ pc = "called" /\ last.op = op
    /\ arg.n = Size(pre.a)
    /\ pre.ix[arg.key] # Absent

\* C8: update(k, v) for a live key k returns true, keeps the set of keys, gives
\* k the priority v, keeps every other priority, and leaves a valid heap; a
\* root lowered below all others gives way to an entry that none of the
\* others dominates.
UpdateChangesOnePriority ==
    OnLiveKey("update") =>
        LET k == arg.key
            v == arg.value
            others == Range(pre.a) \ {pre.a[pre.ix[k]]}
        IN  /\ last.ret
            /\ DOMAIN heap = DOMAIN pre.a
            /\ Range(heap) = others \cup {Entry(v, k)}
            /\ IsHeap(heap, Size(heap), cmp)
            /\ IndexConsistent(heap, idx, Size(heap))
            /\ ( /\ pre.ix[k] = 0
                 /\ others # {}
                 /\ \A e \in others : Comp(cmp, Entry(v, k), e) )
               => /\ heap[0] \in others
                  /\ \A e \in others : ~Comp(cmp, heap[0], e)

\* the root of a heap of three or more was lowered below all others
C8_Witness ==
    /\ OnLiveKey("update")
    /\ pre.ix[arg.key] = 0
    /\ Size(pre.a) >= 3
    /\ \A i \in DOMAIN pre.a \ {0} : Comp(cmp, Entry(arg.value, arg.key), pre.a[i])
    /\ heap[0].second # arg.key

\* C9: pop_key(k) for a live key k returns true and leaves, over [0, n-1), the
\* entries of the other n-1 keys, unchanged, as a valid heap, with
\* indexer(k) = -1.
PopKeyRemovesKey ==
    OnLiveKey("pop_key") =>
        /\ last.ret
        /\ Size(heap) = Size(pre.a) - 1
        /\ Range(heap) = Range(pre.a) \ {pre.a[pre.ix[arg.key]]}
        /\ IsHeap(heap, Size(heap), cmp)
        /\ IndexConsistent(heap, idx, Size(heap))
        /\ idx[arg.key] = Absent

\* the entry that took the removed one's slot had to climb
C9_Witness ==
    /\ OnLiveKey("pop_key")
    /\ last.sift = "up" /\ last.moved
    /\ idx[arg.key] = Absent

\* C10: update and pop_key handed an absent key, or an empty range, return
\* false and leave the sequence and the index map as they were.
FailureLeavesState ==
    ( /\ pc = "called"
      /\ last.op \in {"update", "pop_key"}
      /\ (arg.n = 0 \/ pre.ix[arg.key] = Absent) )
    => /\ ~last.ret
       /\ heap = pre.a
       /\ idx = pre.ix

\* an empty range was handed over with a live key
C10_Witness ==
    /\ pc = "called"
    /\ last.op \in {"update", "pop_key"}
    /\ arg.n = 0
    /\ pre.ix[arg.key] # Absent
    /\ ~last.ret

\* C11: update(k, v) with v equal to the priority stored for the live key k
\* returns true and leaves every slot and every index entry as it was.
UpdateSameValue ==
    (OnLiveKey("update") /\ arg.value = pre.a[pre.ix[arg.key]].first) =>
        /\ last.ret
        /\ heap = pre.a
        /\ idx = pre.ix

\* an inner entry of a full heap was given the priority it had, which is also
\* the priority of its parent and of a child
C11_Witness ==
    /\ OnLiveKey("update")
    /\ Size(pre.a) = MaxN
    /\ pre.ix[arg.key] = 1
    /\ arg.value = pre.a[1].first
    /\ pre.a[0].first = arg.value
    /\ pre.a[3].first = arg.value
    /\ last.ret
    /\ heap = pre.a

\* the keys the index map calls live
LiveCount(ix) == Cardinality({k \in Keys : ix[k] # Absent})

\* C12: the number of keys whose index entry is not -1 equals the active
\* size; a push of a key that is not live raises it by one, a pop of a heap
\* that is not empty and a successful pop_key lower it by one, and update,
\* successful or not, keeps it.
SizeConservation ==
    /\ LiveCount(idx) = Size(heap)
    /\ pc = "called" =>
          LiveCount(idx) - LiveCount(pre.ix) =
              CASE last.op = "push" -> 1
                [] last.op = "pop" /\ Size(pre.a) > 0 -> -1
                [] last.op = "pop_key" /\ last.ret -> -1
                [] OTHER -> 0

\* a key was removed from the middle of a full heap
C12_Witness ==
    /\ OnLiveKey("pop_key")
    /\ last.ret
    /\ Size(pre.a) = MaxN
    /\ pre.ix[arg.key] \in 1 .. MaxN - 2
    /\ LiveCount(pre.ix) = MaxN
    /\ LiveCount(idx) = MaxN - 1

\* sifting toward the leaves from slot i down to the root, in decreasing
\* slot order
RECURSIVE SiftDownFrom(_, _, _, _)
SiftDownFrom(s, n, i, c) ==
    IF i < 0 THEN s
    ELSE SiftDownFrom(bubble_down_loop(s, n, i, c), n, i - 1, c)

\* C13: make on any ordering of entries with distinct keys, the index map
\* matching the positions, leaves the heap property, index consistency and a
\* permutation of the input, and leaves exactly what sifting toward the leaves
\* from the last internal slot n/2 - 1 down to the root leaves.
MakeHeapifies ==
    pc = "made" =>
        LET n == Size(input)
            r == SiftDownFrom(pre, n, (n \div 2) - 1, cmp)
        IN  /\ IsHeap(heap, n, cmp)
            /\ IndexConsistent(heap, idx, n)
            /\ PermOf(heap, input)
            /\ heap = r.a
            /\ idx = r.ix

\* the root of an input of full length went down two levels
C13_Witness ==
    /\ pc = "made"
    /\ Size(input) = MaxLen
    /\ ~IsHeap(input, Size(input), cmp)
    /\ heap[MaxLen - 1] = input[0]
    /\ IsHeap(heap, Size(heap), cmp)
    /\ idx[input[0].second] = MaxLen - 1

\* C14: after sort on a valid heap every key that was in the range has the
\* index entry -1.
SortClearsIndex ==
    (pc \in {"sorted", "made_sorted"} /\ IsHeap(start, Size(start), cmp)) =>
        \A k \in LiveKeys(start) : idx[k] = Absent

\* a heap of full length that make had to build was sorted
C14_Witness ==
    /\ pc = "made_sorted"
    /\ Size(start) = MaxLen
    /\ start # input
    /\ IsHeap(start, Size(start), cmp)
    /\ heap # start
    /\ \A k \in BatchKeys : idx[k] = Absent

\* C15 as stated: a successful update calls exactly one of the two sifts,
\* never none, for every live key and every new value.
UpdateSiftsExactlyOnce ==
    (OnLiveKey("update") /\ last.ret) => last.sift \in {"up", "down"}

\* C15 amended: a successful update calls at most one of the two sifts: the
\* one toward the leaves when the old entry dominates the new one, the one
\* toward the root when the new entry dominates the old one, and none when
\* neither dominates the other.
UpdateSiftsAtMostOnce ==
    OnLiveKey("update") =>
        LET old == pre.a[pre.ix[arg.key]]
            new == Entry(arg.value, arg.key)
        IN  /\ last.ret
            /\ last.sift = IF Comp(cmp, new, old) THEN "down"
                           ELSE IF Comp(cmp, old, new) THEN "up"
                           ELSE "none"

\* the root of a full heap was given the priority it had, and no sift ran
C15_Witness ==
    /\ OnLiveKey("update")
    /\ Size(pre.a) = MaxN
    /\ pre.ix[arg.key] = 0
    /\ pre.a[0].first = arg.value
    /\ last.ret
    /\ last.sift = "none"

\* C16: pop_key(k) for the key k of the last active slot n-1 calls no sift,
\* leaves every entry of the sequence in its slot, and changes the index map
\* only by setting indexer(k) to -1.
PopKeyOfLastSlot ==
    (OnLiveKey("pop_key") /\ pre.ix[arg.key] = Size(pre.a) - 1) =>
        /\ last.ret
        /\ last.sift = "none"
        /\ raw = pre.a
        /\ heap = PopBack(pre.a)
        /\ idx = [pre.ix EXCEPT ![arg.key] = Absent]

\* the last entry of a full heap was removed by its key
C16_Witness ==
    /\ OnLiveKey("pop_key")
    /\ Size(pre.a) = MaxN
    /\ pre.ix[arg.key] = MaxN - 1
    /\ raw = pre.a
    /\ idx[arg.key] = Absent

\* push was handed a key that had a live entry
OnDupPush ==
    /\ pc = "called" /\ last.op = "push"
    /\ pre.ix[arg.key] # Absent

\* C17 as stated: after a push of a key that is already live, every other
\* live key k' in slot j still has indexer(k') = j.
DupPushSparesOthers ==
    OnDupPush =>
        \A j \in DOMAIN heap :
            heap[j].second # arg.key => idx[heap[j].second] = j

\* C17 amended: after a push of a key k that is already live, every other
\* live key k' in slot j has indexer(k') = j unless j is the slot the earlier
\* entry of k had: a key that has moved into that slot, because the new entry
\* climbed past the earlier one and further, has a wrong index entry.
DupPushSparesOthersButOne ==
    OnDupPush =>
        \A j \in DOMAIN heap :
            heap[j].second # arg.key =>
                (idx[heap[j].second] = j <=> j # pre.ix[arg.key])

\* the new entry climbed past the earlier entry of its key to the root; the
\* key that was the root is not where the index map says, the others are
C17_Witness ==
    /\ OnDupPush
    /\ Size(heap) >= 4
    /\ heap[0] = Entry(arg.value, arg.key)
    /\ heap[pre.ix[arg.key]] = pre.a[0]
    /\ idx[pre.a[0].second] # pre.ix[arg.key]
    /\ \E j \in DOMAIN heap :
          heap[j].second # arg.key /\ idx[heap[j].second] = j

\* C18: make only swaps index entries: each slot's key has after make the
\* index entry that the slot's key had before; so a map that was -1
\* everywhere is still -1 everywhere, and the map is consistent with the
\* positions after make only if it was consistent with them before.
MakeKeepsIndexOfSlots ==
    pc = "made" =>
        LET n == Size(input)
        IN  /\ \A i \in 0 .. n - 1 : idx[heap[i].second] = pre.ix[input[i].second]
            /\ pre.ix = AllAbsent => idx = AllAbsent
            /\ IndexConsistent(heap, idx, n) => IndexConsistent(input, pre.ix, n)

\* make reordered a sequence of full length whose index map was -1 everywhere
C18_Witness ==
    /\ pc = "made"
    /\ Size(input) = MaxLen
    /\ pre.ix = AllAbsent
    /\ heap # input
    /\ idx = AllAbsent
    /\ ~IndexConsistent(heap, idx, MaxLen)

\* C19: push, pop, pop_key, make and sort leave in the range they were handed
\* the entries it held, each as often as before; after pop, or a successful
\* pop_key, on a range of size n the removed entry is in slot n-1, where the
\* caller reads it before dropping the tail.
EntriesOnlyPermuted ==
    /\ (pc = "called" /\ last.op = "push") =>
           PermOf(raw, PushBack(pre.a, Entry(arg.value, arg.key)))
    /\ (pc = "called" /\ last.op = "pop") =>
           /\ PermOf(raw, pre.a)
           /\ Size(pre.a) > 0 => raw[Size(pre.a) - 1] = pre.a[0]
    /\ (pc = "called" /\ last.op = "pop_key") =>
           /\ PermOf(raw, pre.a)
           /\ last.ret => raw[arg.n - 1] = pre.a[pre.ix[arg.key]]
    /\ pc \in {"made", "trapped"} => PermOf(raw, input)
    /\ pc \in {"sorted", "made_sorted"} =>
           /\ PermOf(raw, start)
           /\ PermOf(raw, input)
    /\ pc = "draining" =>
           /\ Size(raw) = Size(heap) + 1
           /\ raw[Size(raw) - 1] = out[Len(out)]
           /\ \A i \in DOMAIN heap : raw[i] = heap[i]

\* an entry was removed by its key from the middle of a full heap, the
\* others were reordered, and the removed entry is in the last slot
C19_Witness ==
    /\ OnLiveKey("pop_key")
    /\ last.ret /\ last.moved
    /\ Size(pre.a) = MaxN
    /\ pre.ix[arg.key] \in 1 .. MaxN - 2
    /\ raw[MaxN - 1] = pre.a[pre.ix[arg.key]]
    /\ PermOf(raw, pre.a)

\* C20: in a sift toward the leaves at a slot with both children inside the
\* range, the right child is taken exactly when it dominates the better of
\* the parent and the left child, the left child when it dominates the parent
\* and the right one does not dominate it; so when both children dominate
\* the parent and neither dominates the other the parent is swapped with the
\* left one, and when neither child dominates the parent nothing is swapped.
SiftTieBreak ==
    (pc = "sifted" /\ 2 * arg.slot + 2 < arg.n) =>
        LET i      == arg.slot
            parent == input[i]
            left   == input[2 * i + 1]
            right  == input[2 * i + 2]
            better == IF Comp(cmp, parent, left) THEN left ELSE parent
        IN  /\ heap[i] = right <=> Comp(cmp, better, right)
            /\ heap[i] = left <=>
                   (Comp(cmp, parent, left) /\ ~Comp(cmp, left, right))
            /\ ( /\ Comp(cmp, parent, left) /\ Comp(cmp, parent, right)
                 /\ ~Comp(cmp, left, right) /\ ~Comp(cmp, right, left) )
               => /\ heap[i] = left
                  /\ heap[2 * i + 2] = right
            /\ (~Comp(cmp, parent, left) /\ ~Comp(cmp, parent, right))
               => (heap = input /\ idx = pre.ix)

\* both children dominated the root and tied with each other, and the root
\* went down to the left, where it had a child of its own to be compared with
C20_Witness ==
    /\ pc = "sifted"
    /\ arg.slot = 0
    /\ arg.n = MaxLen
    /\ Comp(cmp, input[0], input[1]) /\ Comp(cmp, input[0], input[2])
    /\ ~Comp(cmp, input[1], input[2]) /\ ~Comp(cmp, input[2], input[1])
    /\ heap[0] = input[1]
    /\ heap[2] = input[2]

====
